---------------------------- MODULE Spec2Model ----------------------------
(***************************************************************************)
(* Model of zap's field.go: the Field value, its factories, and the replay *)
(* of fields into a KeyValue sink (Field.AddTo, addFields, multiFields).   *)
(*                                                                         *)
(* Representation choices                                                  *)
(*  - A Go string is a sequence of one-character strings, so that          *)
(*    concatenation (key + "Error") and base64 encoding are computed.      *)
(*  - TLC's integers are 32 bits wide, so a 64-bit word is four base-2^16  *)
(*    digits <<d3, d2, d1, d0>>, most significant first.  A uint64 has     *)
(*    d3 in 0..65535; an int64 has d3 in -32768..32767 (the numeric value  *)
(*    is d3*2^48 + d2*2^32 + d1*2^16 + d0 in both cases).                  *)
(*  - A float64 is the record [sign, exp, frac] of its IEEE-754 parts,     *)
(*    frac being <<f3, f2, f1, f0>> with f3 the top 4 bits of the 52.      *)
(*  - A Go error value is [isNil, msg]; an interface value held in         *)
(*    Field.obj is a record with a tag naming its dynamic type.            *)
(***************************************************************************)
EXTENDS Integers, Sequences, FiniteSets, TLC

VARIABLES
    fields,     \* the field list built so far for one log call ([]Field)
    made,       \* per top-level field, the factory call that produced it
    sink,       \* the KeyValue the fields are replayed into
    objState,   \* state of each fmt.Stringer object handed to Stringer
    replayed,   \* whether the field list has been replayed
    atReplay,   \* objState as it was when the latest replay ran
    pool,       \* jsonPool: [free: buffers in the pool, made: buffers ever created]
    pc,         \* per thread, its position inside Stack()
    held        \* per thread, the pooled buffer it holds (0: none)

vars == <<fields, made, sink, objState, replayed, atReplay, pool, pc, held>>

---------------------------------------------------------------------------
(* Bounds of the model *)

\* total number of Field values (nested ones included) built for one log call
MaxFields == 3
\* number of threads calling Stack concurrently
MaxThreads == 3

---------------------------------------------------------------------------
(* Go strings *)

S_Error      == <<"E", "r", "r", "o", "r">>
S_error      == <<"e", "r", "r", "o", "r">>
S_stacktrace == <<"s", "t", "a", "c", "k", "t", "r", "a", "c", "e">>

Keys == {<<"k">>, <<"j">>}

\* fmt.Sprintf("%sError", key)
SprintfError(key) == key \o S_Error

(* Go error values *)
NilErr       == [isNil |-> TRUE,  msg |-> <<>>]
ErrorOf(m)   == [isNil |-> FALSE, msg |-> m]

---------------------------------------------------------------------------
(* 64-bit words *)

TwoTo15 == 2^15
TwoTo16 == 2^16

\* a version that converts by value, saturating at the largest int64
Int64OfUint64Saturating(u) ==
    IF u[1] >= TwoTo15 THEN <<TwoTo15 - 1, TwoTo16 - 1, TwoTo16 - 1, TwoTo16 - 1>> ELSE u

\* int64(u) for a uint64 u: two's-complement reinterpretation
Int64OfUint64(u) ==
    <<IF u[1] >= TwoTo15 THEN u[1] - TwoTo16 ELSE u[1], u[2], u[3], u[4]>>

\* uint64(s) for an int64 s
Uint64OfInt64(s) ==
    <<s[1] % TwoTo16, s[2], s[3], s[4]>>

\* the int64 of a small integer literal
I64(n) ==
    IF n >= 0 THEN <<0, 0, 0, n>> ELSE <<-1, TwoTo16 - 1, TwoTo16 - 1, TwoTo16 + n>>

\* int64(val) for a platform int (64 bits wide on the modelled platform)
Int64OfInt(v) == v
\* int(f.ival)
IntOfInt64(v) == v

\* math.Float64bits: sign bit, 11 exponent bits, 52 fraction bits
Float64bits(v) ==
    <<v.sign * TwoTo15 + v.exp * 16 + v.frac[1], v.frac[2], v.frac[3], v.frac[4]>>

\* math.Float64frombits
Float64frombits(u) ==
    [sign |-> u[1] \div TwoTo15,
     exp  |-> (u[1] % TwoTo15) \div 16,
     frac |-> <<u[1] % 16, u[2], u[3], u[4]>>]

ExpMax == 2^11 - 1

IsNaN(v)  == v.exp = ExpMax /\ v.frac # <<0, 0, 0, 0>>

F64(s, e, f3, f0) == [sign |-> s, exp |-> e, frac |-> <<f3, 0, 0, f0>>]

---------------------------------------------------------------------------
(* base64.StdEncoding.EncodeToString *)

B64Alphabet ==
    <<"A","B","C","D","E","F","G","H","I","J","K","L","M","N","O","P",
      "Q","R","S","T","U","V","W","X","Y","Z","a","b","c","d","e","f",
      "g","h","i","j","k","l","m","n","o","p","q","r","s","t","u","v",
      "w","x","y","z","0","1","2","3","4","5","6","7","8","9","+","/">>

B64Char(n) == B64Alphabet[n + 1]

RECURSIVE EncodeToString(_)
EncodeToString(bs) ==
    IF Len(bs) = 0 THEN <<>>
    ELSE IF Len(bs) = 1 THEN
        <<B64Char(bs[1] \div 4), B64Char((bs[1] % 4) * 16), "=", "=">>
    ELSE IF Len(bs) = 2 THEN
        <<B64Char(bs[1] \div 4),
          B64Char((bs[1] % 4) * 16 + bs[2] \div 16),
          B64Char((bs[2] % 16) * 4), "=">>
    ELSE
        <<B64Char(bs[1] \div 4),
          B64Char((bs[1] % 4) * 16 + bs[2] \div 16),
          B64Char((bs[2] % 16) * 4 + bs[3] \div 64),
          B64Char(bs[3] % 64)>> \o EncodeToString(SubSeq(bs, 4, Len(bs)))

---------------------------------------------------------------------------
(* fieldType *)

unknownType   == 0
boolType      == 1
floatType     == 2
intType       == 3
int64Type     == 4
stringType    == 5
marshalerType == 6
objectType    == 7
stringerType  == 8
skipType      == 9

(* interface values stored in Field.obj *)
NilObj            == [tag |-> "nil"]
StringerObj(id)   == [tag |-> "stringer", id |-> id]
MarshalerObj(id)  == [tag |-> "marshaler", id |-> id]
AnyObj(id)        == [tag |-> "object", id |-> id]
\* the conversion multiFields(fields)
multiFields(fs)   == [tag |-> "multiFields", fs |-> fs]

\* the zero Field, with the named members set
Field(key, t, ival, str, obj) ==
    [key |-> key, fieldType |-> t, ival |-> ival, str |-> str, obj |-> obj]

---------------------------------------------------------------------------
(* External collaborators of the factories *)

\* how a Stringer object in state st renders itself
Digits == <<"0", "1", "2", "3", "4", "5", "6", "7", "8", "9">>
Render(st) == <<"v", Digits[st + 1]>>

\* timeToSeconds: nanoseconds since the epoch, as float64 seconds
timeToSeconds(t) ==
    CASE t = 0          -> F64(0, 0, 0, 0)        \* 0.0
      [] t = 500000000  -> F64(0, 1022, 0, 0)     \* 0.5
      [] t = 1000000000 -> F64(0, 1023, 0, 0)     \* 1.0
      [] t = 1500000000 -> F64(0, 1023, 8, 0)     \* 1.5
      [] t = 2000000000 -> F64(0, 1024, 0, 0)     \* 2.0

\* takeStacktrace(bs, false): the formatted stack of the calling goroutine
takeStacktrace == <<"g", "o", "r", "o", "u", "t", "i", "n", "e">>

---------------------------------------------------------------------------
(* The factories *)

Skip == Field(<<>>, skipType, I64(0), <<>>, NilObj)

String(key, val) == Field(key, stringType, I64(0), val, NilObj)

Base64(key, val) == String(key, EncodeToString(val))

Bool(key, val) ==
    LET ival == IF val THEN I64(1) ELSE I64(0)
    IN  Field(key, boolType, ival, <<>>, NilObj)

Float64(key, val) ==
    Field(key, floatType, Int64OfUint64(Float64bits(val)), <<>>, NilObj)

IntField(key, val) == Field(key, intType, Int64OfInt(val), <<>>, NilObj)

Int64(key, val) == Field(key, int64Type, val, <<>>, NilObj)

\* a version that takes the string when the field is built
StringerEager(key, val) == Field(key, stringType, I64(0), Render(objState[val.id]), NilObj)

Stringer(key, val) == Field(key, stringerType, I64(0), <<>>, val)

Time(key, val) == Float64(key, timeToSeconds(val))

\* a version that also drops an error whose message is empty
ErrorUnlessEmpty(err) ==
    IF err.isNil \/ err.msg = <<>> THEN Skip ELSE String(S_error, err.msg)

Error(err) ==
    IF err.isNil THEN Skip ELSE String(S_error, err.msg)

Duration(key, val) == Int64(key, val)

Marshaler(key, val) == Field(key, marshalerType, I64(0), <<>>, val)

Object(key, val) == Field(key, objectType, I64(0), <<>>, val)

Nest(key, fs) == Field(key, marshalerType, I64(0), <<>>, multiFields(fs))

---------------------------------------------------------------------------
(* The sink: a KeyValue that records the calls made on it.                 *)
(* A sink value is [log, scope, panicked, invoked]:                        *)
(*   log      the calls received, in order;                                *)
(*   scope    the keys of the sub-scopes currently open;                   *)
(*   panicked a panic is unwinding through the replay;                     *)
(*   invoked  how many times a Stringer's String method has run.           *)
(* A log entry is [op, key, val, err, merr, depth, site]: the operation,   *)
(* its arguments, the error it returned, for AddMarshaler the error that   *)
(* MarshalLog returned to the sink, the number of sub-scopes open when the *)
(* call was made, and the line of field.go that made the call.             *)
(* AddMarshaler leaves two entries: "AddMarshaler" when it opens the       *)
(* sub-scope and "EndMarshaler" when it closes it and returns.             *)

EmptySink == [log |-> <<>>, scope |-> <<>>, panicked |-> FALSE, invoked |-> 0]

Entry(kv, op, key, val, err, merr, site) ==
    [op |-> op, key |-> key, val |-> val, err |-> err, merr |-> merr,
     depth |-> Len(kv.scope), site |-> site]

\* a sink call without an error path: AddBool, AddFloat64, AddInt, AddInt64, AddString
KVAdd(kv, op, key, val, site) ==
    [kv EXCEPT !.log = Append(@, Entry(kv, op, key, val, NilErr, NilErr, site))]

\* the message of the failure a sink reports
SinkFailure == ErrorOf(<<"b", "a", "d">>)

\* what a call that may fail hands back to AddTo
Ret(kv, err) == [kv |-> kv, err |-> err]

Panic(kv) == [kv EXCEPT !.panicked = TRUE]

\* kv.AddObject(key, obj): reflective encoding, failing for the keys in fails
KVAddObject(kv, key, obj, site, fails) ==
    LET err == IF key \in fails THEN SinkFailure ELSE NilErr
    IN  Ret([kv EXCEPT !.log = Append(@, Entry(kv, "AddObject", key, obj, err, NilErr, site))], err)

\* the String method of a Stringer object: a rendering of its current state
StringMethod(id) == Render(objState[id])

\* the states a Stringer object can be in
ObjStates == {0, 1}

RECURSIVE AddTo(_, _, _)
RECURSIVE addFields(_, _, _)

\* a version of MarshalLog that hands an inner field's failure to its caller
MarshalLogPropagating(fs, kv, fails) ==
    LET after == addFields(kv, fs, fails)
        inner == {i \in (Len(kv.log) + 1)..Len(after.log) : ~after.log[i].err.isNil}
    IN  Ret(after, IF inner = {} THEN NilErr ELSE SinkFailure)

\* a version that replays all fields but the first
MarshalLogFromSecond(fs, kv, fails) ==
    Ret(addFields(kv, IF fs = <<>> THEN fs ELSE Tail(fs), fails), NilErr)

\* func (fs multiFields) MarshalLog(kv KeyValue) error
MarshalLog(fs, kv, fails) ==
    Ret(addFields(kv, fs, fails), NilErr)

\* obj.MarshalLog(kv) for any LogMarshaler: a nested group replays its fields,
\* a caller's own marshaler writes nothing that is followed here
LogMarshalerMarshalLog(obj, kv, fails) ==
    IF obj.tag = "multiFields" THEN MarshalLog(obj.fs, kv, fails) ELSE Ret(kv, NilErr)

\* kv.AddMarshaler(key, obj): open the sub-scope key, let obj write into it,
\* close it; the call fails for the keys in fails, and otherwise returns
\* what MarshalLog returned
KVAddMarshaler(kv, key, obj, site, fails) ==
    LET opened == [kv EXCEPT !.log = Append(@, Entry(kv, "AddMarshaler", key, obj, NilErr, NilErr, site)),
                             !.scope = Append(@, key)]
        r      == LogMarshalerMarshalLog(obj, opened, fails)
        err    == IF key \in fails THEN SinkFailure ELSE r.err
    IN  IF r.kv.panicked THEN Ret(r.kv, NilErr)
        ELSE Ret([r.kv EXCEPT !.log = Append(@, Entry(kv, "EndMarshaler", key, obj, err, r.err, site)),
                              !.scope = kv.scope], err)

---------------------------------------------------------------------------
(* Field.AddTo, one operator per case of its switch *)

\* a version that hands a bool to the sink as an int
CaseBoolAsInt(f, kv) == Ret(KVAdd(kv, "AddInt", f.key, f.ival, 176), NilErr)

CaseBool(f, kv) == Ret(KVAdd(kv, "AddBool", f.key, f.ival = I64(1), 176), NilErr)

CaseFloat(f, kv) ==
    Ret(KVAdd(kv, "AddFloat64", f.key, Float64frombits(Uint64OfInt64(f.ival)), 178), NilErr)

CaseInt(f, kv) == Ret(KVAdd(kv, "AddInt", f.key, IntOfInt64(f.ival), 180), NilErr)

CaseInt64(f, kv) == Ret(KVAdd(kv, "AddInt64", f.key, f.ival, 182), NilErr)

CaseString(f, kv) == Ret(KVAdd(kv, "AddString", f.key, f.str, 184), NilErr)

\* f.obj.(fmt.Stringer).String(): the assertion panics on any other dynamic type
CaseStringer(f, kv) ==
    IF f.obj.tag # "stringer" THEN Ret(Panic(kv), NilErr)
    ELSE Ret(KVAdd([kv EXCEPT !.invoked = @ + 1],
                   "AddString", f.key, StringMethod(f.obj.id), 186), NilErr)

\* f.obj.(LogMarshaler)
CaseMarshaler(f, kv, fails) ==
    IF f.obj.tag \notin {"marshaler", "multiFields"} THEN Ret(Panic(kv), NilErr)
    ELSE KVAddMarshaler(kv, f.key, f.obj, 188, fails)

CaseObject(f, kv, fails) == KVAddObject(kv, f.key, f.obj, 190, fails)

CaseSkip(f, kv) == Ret(kv, NilErr)

\* a version that lets a field of an unknown kind pass
CaseDefaultReturns(f, kv) == Ret(kv, NilErr)

\* panic(fmt.Sprintf("unknown field type found: %v", f))
CaseDefault(f, kv) == Ret(Panic(kv), NilErr)

\* the switch of AddTo
Switch(f, kv, fails) ==
    CASE f.fieldType = boolType      -> CaseBool(f, kv)
      [] f.fieldType = floatType     -> CaseFloat(f, kv)
      [] f.fieldType = intType       -> CaseInt(f, kv)
      [] f.fieldType = int64Type     -> CaseInt64(f, kv)
      [] f.fieldType = stringType    -> CaseString(f, kv)
      [] f.fieldType = stringerType  -> CaseStringer(f, kv)
      [] f.fieldType = marshalerType -> CaseMarshaler(f, kv, fails)
      [] f.fieldType = objectType    -> CaseObject(f, kv, fails)
      [] f.fieldType = skipType      -> CaseSkip(f, kv)
      [] OTHER                       -> CaseDefault(f, kv)

\* a version that writes the failure under the field's own key
IfErrOwnKey(f, r) ==
    IF r.kv.panicked THEN r.kv
    ELSE IF ~r.err.isNil THEN KVAdd(r.kv, "AddString", f.key, r.err.msg, 198)
    ELSE r.kv

\* if err != nil { kv.AddString(fmt.Sprintf("%sError", f.key), err.Error()) }
IfErr(f, r) ==
    IF r.kv.panicked THEN r.kv
    ELSE IF ~r.err.isNil THEN KVAdd(r.kv, "AddString", SprintfError(f.key), r.err.msg, 198)
    ELSE r.kv

\* func (f Field) AddTo(kv KeyValue)
AddTo(f, kv, fails) == IfErr(f, Switch(f, kv, fails))

\* a version whose loop ends at the first field that left a "<key>Error" call
addFieldsUntilFailure(kv, fs, fails) ==
    IF fs = <<>> \/ kv.panicked THEN kv
    ELSE LET next == AddTo(Head(fs), kv, fails)
         IN  IF next.log # <<>> /\ next.log[Len(next.log)].site = 198 THEN next
             ELSE addFields(next, Tail(fs), fails)

\* func addFields(kv KeyValue, fields []Field): a panic ends the loop
addFields(kv, fs, fails) ==
    IF fs = <<>> \/ kv.panicked THEN kv
    ELSE addFields(AddTo(Head(fs), kv, fails), Tail(fs), fails)

---------------------------------------------------------------------------
(* jsonPool, a sync.Pool of encoders, and Stack *)

Threads == 1..MaxThreads

\* the buffers Get may hand out: any pooled one, or a new one when none is pooled
PoolGettable(p) == IF p.free = {} THEN {p.made + 1} ELSE p.free

\* jsonPool.Get() returning buffer b
PoolGet(p, b) ==
    IF b \in p.free THEN [p EXCEPT !.free = @ \ {b}]
    ELSE [p EXCEPT !.made = b]

\* enc.Free(): jsonPool.Put(enc)
PoolPut(p, b) == [p EXCEPT !.free = @ \cup {b}]

---------------------------------------------------------------------------
(* Inputs *)

K1          == {<<"k">>}
StringerIds == {"s1"}
LiteralIn   == {unknownType, skipType + 1}

\* arguments of the factory calls of a log call
FloatIn     == {F64(1, 0, 0, 0)}
IntIn       == {I64(200)}
Int64In     == {I64(-1)}
StringIn    == {<<"G", "E", "T">>}
BytesIn     == {<<0, 1, 2, 3>>}
TimeIn      == {1500000000}
DurationIn  == {I64(1500)}
ErrIn       == {NilErr, ErrorOf(<<"b", "o", "o", "m">>)}

\* arguments of the factory calls when one field is built and replayed
FloatSamples ==
    {[sign |-> s, exp |-> e, frac |-> <<f3, 0, f1, f0>>] :
        s \in 0..1, e \in {0, 1, 1023, ExpMax - 1, ExpMax},
        f3 \in {0, 8, 15}, f1 \in {0, TwoTo16 - 1}, f0 \in {0, 1}}
IntSamples      == {I64(-1), I64(0), I64(200), <<-TwoTo15, 0, 0, 0>>, <<TwoTo15 - 1, 0, 0, 1>>}
StringSamples   == {<<>>, <<"G", "E", "T">>, S_Error}
BytesSamples    == {<<>>, <<0>>, <<255, 254>>, <<0, 1, 2, 3>>}
TimeSamples     == {0, 500000000, 1000000000, 1500000000, 2000000000}
ErrSamples      == {NilErr, ErrorOf(<<"b", "o", "o", "m">>), ErrorOf(<<>>)}

---------------------------------------------------------------------------
(* State *)

RECURSIVE Size(_)
\* number of Field values in a field list, nested ones included
Size(fs) ==
    IF fs = <<>> THEN 0
    ELSE 1 + (IF Head(fs).obj.tag = "multiFields" THEN Size(Head(fs).obj.fs) ELSE 0)
           + Size(Tail(fs))

RECURSIVE Holds(_, _)
\* whether a field list holds a reference to Stringer object id
Holds(fs, id) ==
    fs # <<>> /\
    \/ Head(fs).obj = StringerObj(id)
    \/ Head(fs).obj.tag = "multiFields" /\ Holds(Head(fs).obj.fs, id)
    \/ Holds(Tail(fs), id)

\* the threads that have entered Stack() and have not returned from it
Started == {t \in Threads : pc[t] # "idle"}

\* the threads inside Stack(), between jsonPool.Get and enc.Free
InProgress == {t \in Threads : pc[t] \in {"got", "taken"}}

Init ==
    /\ fields = <<>>
    /\ made = <<>>
    /\ sink = EmptySink
    /\ objState = [id \in StringerIds |-> 0]
    /\ replayed = FALSE
    /\ atReplay = objState
    /\ pool = [free |-> {}, made |-> 0]
    /\ pc = [t \in Threads |-> "idle"]
    /\ held = [t \in Threads |-> 0]

\* a factory's result joins the field list of the log call
Built(f, m) ==
    /\ ~replayed
    /\ Size(fields) + Cardinality(Started) < MaxFields
    /\ fields' = Append(fields, f)
    /\ made' = Append(made, m)
    /\ UNCHANGED <<sink, objState, replayed, atReplay>>

Call(fn, key, arg) == [fn |-> fn, key |-> key, arg |-> arg]

SkipCall == Built(Skip, Call("Skip", <<>>, <<>>)) /\ UNCHANGED <<pool, pc, held>>

BoolCall(key, val) ==
    Built(Bool(key, val), Call("Bool", key, val)) /\ UNCHANGED <<pool, pc, held>>

Float64Call(key, val) ==
    Built(Float64(key, val), Call("Float64", key, val)) /\ UNCHANGED <<pool, pc, held>>

IntCall(key, val) ==
    Built(IntField(key, val), Call("Int", key, val)) /\ UNCHANGED <<pool, pc, held>>

Int64Call(key, val) ==
    Built(Int64(key, val), Call("Int64", key, val)) /\ UNCHANGED <<pool, pc, held>>

StringCall(key, val) ==
    Built(String(key, val), Call("String", key, val)) /\ UNCHANGED <<pool, pc, held>>

Base64Call(key, val) ==
    Built(Base64(key, val), Call("Base64", key, val)) /\ UNCHANGED <<pool, pc, held>>

StringerCall(key, id) ==
    Built(Stringer(key, StringerObj(id)), Call("Stringer", key, id))
    /\ UNCHANGED <<pool, pc, held>>

TimeCall(key, val) ==
    Built(Time(key, val), Call("Time", key, val)) /\ UNCHANGED <<pool, pc, held>>

ErrorCall(err) ==
    Built(Error(err), Call("Error", <<>>, err)) /\ UNCHANGED <<pool, pc, held>>

DurationCall(key, val) ==
    Built(Duration(key, val), Call("Duration", key, val)) /\ UNCHANGED <<pool, pc, held>>

MarshalerCall(key, id) ==
    Built(Marshaler(key, MarshalerObj(id)), Call("Marshaler", key, id))
    /\ UNCHANGED <<pool, pc, held>>

ObjectCall(key, id) ==
    Built(Object(key, AnyObj(id)), Call("Object", key, id))
    /\ UNCHANGED <<pool, pc, held>>

\* Nest(key, fields...) over the last n fields built
NestCall(key, n) ==
    LET from == Len(fields) - n + 1
    IN  /\ ~replayed
        /\ Size(fields) + Cardinality(Started) < MaxFields
        /\ fields' = Append(SubSeq(fields, 1, from - 1),
                            Nest(key, SubSeq(fields, from, Len(fields))))
        /\ made' = Append(SubSeq(made, 1, from - 1),
                          Call("Nest", key, SubSeq(made, from, Len(made))))
        /\ UNCHANGED <<sink, objState, replayed, atReplay, pool, pc, held>>

\* a Field written as a composite literal by code of the package, not by a factory
LiteralCall(key, t) ==
    Built(Field(key, t, I64(0), <<>>, NilObj), Call("literal", key, t))
    /\ UNCHANGED <<pool, pc, held>>

\* the caller changes a Stringer object it has handed to Stringer
Mutate(id) ==
    /\ Holds(fields, id)
    /\ ~sink.panicked
    /\ \E st \in ObjStates \ {objState[id]} : objState' = [objState EXCEPT ![id] = st]
    /\ UNCHANGED <<fields, made, sink, replayed, atReplay, pool, pc, held>>

\* addFields(kv, fields) on a new sink, which fails the calls for the keys in fails
Replay(fails) ==
    /\ InProgress = {}
    /\ ~sink.panicked
    /\ sink' = addFields(EmptySink, fields, fails)
    /\ replayed' = TRUE
    /\ atReplay' = objState
    /\ UNCHANGED <<fields, made, objState, pool, pc, held>>

(* Stack() step by step: the pool is free for other threads between Get and Free *)

\* enc := jsonPool.Get().(*jsonEncoder); enc.truncate(); bs := ...
StackGet(t) ==
    /\ pc[t] = "idle"
    /\ ~replayed
    /\ Size(fields) + Cardinality(Started) < MaxFields
    /\ \E b \in PoolGettable(pool) :
        /\ pool' = PoolGet(pool, b)
        /\ held' = [held EXCEPT ![t] = b]
    /\ pc' = [pc EXCEPT ![t] = "got"]
    /\ UNCHANGED <<fields, made, sink, objState, replayed, atReplay>>

\* field := String("stacktrace", takeStacktrace(bs, false))
StackTake(t) ==
    /\ pc[t] = "got"
    /\ pc' = [pc EXCEPT ![t] = "taken"]
    /\ UNCHANGED <<fields, made, sink, objState, replayed, atReplay, pool, held>>

\* takeStacktrace panics: the call unwinds from line 135
StackPanic(t) ==
    /\ pc[t] = "got"
    /\ pc' = [pc EXCEPT ![t] = "panicked"]
    /\ UNCHANGED <<fields, made, sink, objState, replayed, atReplay, pool, held>>

\* enc.Free(); return field
StackFree(t) ==
    /\ pc[t] = "taken"
    /\ pool' = PoolPut(pool, held[t])
    /\ held' = [held EXCEPT ![t] = 0]
    /\ pc' = [pc EXCEPT ![t] = "idle"]
    /\ fields' = Append(fields, String(S_stacktrace, takeStacktrace))
    /\ made' = Append(made, Call("Stack", <<>>, <<>>))
    /\ UNCHANGED <<sink, objState, replayed, atReplay>>

\* one log call: fields are built, nested, and replayed
Next ==
    \/ SkipCall
    \/ \E key \in K1 : BoolCall(key, TRUE)
    \/ \E key \in K1, val \in FloatIn : Float64Call(key, val)
    \/ \E key \in K1, val \in IntIn : IntCall(key, val)
    \/ \E key \in K1, val \in Int64In : Int64Call(key, val)
    \/ \E key \in K1, val \in StringIn : StringCall(key, val)
    \/ \E key \in K1, val \in BytesIn : Base64Call(key, val)
    \/ \E key \in K1, id \in StringerIds : StringerCall(key, id)
    \/ \E key \in K1, val \in TimeIn : TimeCall(key, val)
    \/ \E err \in ErrIn : ErrorCall(err)
    \/ \E key \in K1, val \in DurationIn : DurationCall(key, val)
    \/ \E key \in K1 : MarshalerCall(key, "m1")
    \/ \E key \in Keys : ObjectCall(key, "o1")
    \/ \E key \in Keys, n \in 0..Len(fields) : NestCall(key, n)
    \/ \E t \in Threads : StackGet(t) \/ StackTake(t) \/ StackPanic(t) \/ StackFree(t)
    \/ \E key \in K1, t \in LiteralIn : LiteralCall(key, t)
    \/ \E id \in StringerIds : Mutate(id)
    \/ \E fails \in SUBSET Keys : Replay(fails)

Spec == Init /\ [][Next]_vars

\* one field: built from any argument, then replayed
NextOne ==
    \/ fields = <<>> /\ InProgress = {} /\ SkipCall
    \/ \E key \in Keys, val \in BOOLEAN : fields = <<>> /\ InProgress = {} /\ BoolCall(key, val)
    \/ \E key \in Keys, val \in FloatSamples : fields = <<>> /\ InProgress = {} /\ Float64Call(key, val)
    \/ \E key \in Keys, val \in IntSamples : fields = <<>> /\ InProgress = {} /\ IntCall(key, val)
    \/ \E key \in Keys, val \in IntSamples : fields = <<>> /\ InProgress = {} /\ Int64Call(key, val)
    \/ \E key \in Keys, val \in StringSamples : fields = <<>> /\ InProgress = {} /\ StringCall(key, val)
    \/ \E key \in Keys, val \in BytesSamples : fields = <<>> /\ InProgress = {} /\ Base64Call(key, val)
    \/ \E key \in Keys, id \in StringerIds : fields = <<>> /\ InProgress = {} /\ StringerCall(key, id)
    \/ \E key \in Keys, val \in TimeSamples : fields = <<>> /\ InProgress = {} /\ TimeCall(key, val)
    \/ \E err \in ErrSamples : fields = <<>> /\ InProgress = {} /\ ErrorCall(err)
    \/ \E key \in Keys, val \in IntSamples : fields = <<>> /\ InProgress = {} /\ DurationCall(key, val)
    \/ \E key \in Keys : fields = <<>> /\ InProgress = {} /\ MarshalerCall(key, "m1")
    \/ \E key \in Keys : fields = <<>> /\ InProgress = {} /\ ObjectCall(key, "o1")
    \/ \E key \in Keys : fields = <<>> /\ InProgress = {} /\ NestCall(key, 0)
    \/ \E t \in Threads : (fields = <<>> /\ InProgress = {} /\ StackGet(t)) \/ StackTake(t) \/ StackPanic(t) \/ StackFree(t)
    \/ \E id \in StringerIds : Mutate(id)
    \/ \E fails \in SUBSET Keys : Replay(fails)

SpecOne == Init /\ [][NextOne]_vars

\* Stack called from several threads at once
NextStack ==
    \E t \in Threads : StackGet(t) \/ StackTake(t) \/ StackPanic(t) \/ StackFree(t)

SpecStack == Init /\ [][NextStack]_vars

---------------------------------------------------------------------------
(* Reading the sink's log *)

Log == sink.log

\* the sink operation AddTo uses for each kind that has one
OpOf(t) ==
    CASE t = boolType      -> "AddBool"
      [] t = floatType     -> "AddFloat64"
      [] t = intType       -> "AddInt"
      [] t = int64Type     -> "AddInt64"
      [] t = stringType    -> "AddString"
      [] t = stringerType  -> "AddString"
      [] t = marshalerType -> "AddMarshaler"
      [] t = objectType    -> "AddObject"
      [] OTHER             -> "none"

IsSkip(f)    == f.fieldType = skipType
NotSkip(f)   == ~IsSkip(f)
NonSkip(fs)  == SelectSeq(fs, NotSkip)

\* a call AddTo makes from its switch, as opposed to the "<key>Error" call
IsSwitchCall(e) == e.op # "EndMarshaler" /\ e.site # 198
\* the entry that carries the error of a call that can fail
IsReturn(e)     == e.op \in {"AddObject", "EndMarshaler"}
Failed(e)       == IsReturn(e) /\ ~e.err.isNil
IsGroupOpen(e)  == e.op = "AddMarshaler" /\ e.val.tag = "multiFields"

\* entry e is the "<key>Error" call for the failed entry r
IsErrorFieldOf(e, r) ==
    /\ e.op = "AddString"
    /\ e.site = 198
    /\ e.key = r.key \o S_Error
    /\ e.val = r.err.msg
    /\ e.depth = r.depth

\* the entries of Log[lo..hi] made at depth d, satisfying Test
Entries(lo, hi, d, Test(_)) ==
    LET AtDepth(e) == e.depth = d /\ Test(e)
    IN  SelectSeq(SubSeq(Log, lo, hi), AtDepth)

IsCall(e) == e.op # "EndMarshaler"

\* entry e is the switch's call for field f
CallFor(f, e) == e.op = OpOf(f.fieldType) /\ e.key = f.key

\* the entries es are the calls for the fields fs that are not skips, in order
CallsFor(fs, es) ==
    /\ Len(NonSkip(fs)) = Len(es)
    /\ \A i \in 1..Len(es) : CallFor(NonSkip(fs)[i], es[i])

Opens == {i \in 1..Len(Log) : IsGroupOpen(Log[i])}

Closes(i, j) ==
    /\ j > i
    /\ Log[j].op = "EndMarshaler"
    /\ Log[j].depth = Log[i].depth
    /\ \A m \in (i + 1)..(j - 1) : Log[m].depth > Log[i].depth

Closed(i) == \E j \in (i + 1)..Len(Log) : Closes(i, j)
CloseOf(i) == CHOOSE j \in (i + 1)..Len(Log) : Closes(i, j)

RECURSIVE Pre(_)
\* all fields of a field list, nested ones included, in replay order
Pre(fs) ==
    IF fs = <<>> THEN <<>>
    ELSE <<Head(fs)>>
         \o (IF Head(fs).obj.tag = "multiFields" THEN Pre(Head(fs).obj.fs) ELSE <<>>)
         \o Pre(Tail(fs))

RECURSIVE PreMade(_)
\* the factory calls behind Pre(fields)
PreMade(ms) ==
    IF ms = <<>> THEN <<>>
    ELSE <<Head(ms)>>
         \o (IF Head(ms).fn = "Nest" THEN PreMade(Head(ms).arg) ELSE <<>>)
         \o PreMade(Tail(ms))

FactoryBuilt == \A i \in 1..Len(PreMade(made)) : PreMade(made)[i].fn # "literal"

\* the kinds AddTo's switch has a case for, and the kinds fieldType declares
HasCase(f) == f.fieldType \in boolType..skipType
Declared(f) == f.fieldType \in unknownType..skipType

---------------------------------------------------------------------------
(* C1: when the AddMarshaler or AddObject call AddTo makes for a field with *)
(* key k returns a failure E, the next call the sink receives is           *)
(* AddString(k + "Error", E's message), made by AddTo itself, which so     *)
(* went on to its end instead of handing E to its caller; when the call    *)
(* returns no failure, no such call follows it.                            *)
C1_FailureBecomesErrorField ==
    \A i \in 1..Len(Log) :
        /\ Failed(Log[i]) =>
              i < Len(Log) /\ IsErrorFieldOf(Log[i + 1], Log[i])
        /\ IsReturn(Log[i]) /\ Log[i].err.isNil =>
              ~(i < Len(Log) /\ Log[i + 1].site = 198)
        /\ Log[i].site = 198 => i > 1 /\ Failed(Log[i - 1])

\* a replay in which an AddObject call failed, an AddMarshaler call failed,
\* and an AddObject call succeeded
C1_Witness ==
    /\ \E i \in 1..Len(Log) : Failed(Log[i]) /\ Log[i].op = "AddObject"
    /\ \E i \in 1..Len(Log) : Failed(Log[i]) /\ Log[i].op = "EndMarshaler"
    /\ \E i \in 1..Len(Log) : Log[i].op = "AddObject" /\ Log[i].err.isNil

---------------------------------------------------------------------------
(* C2: addFields over factory-built fields runs to the end of the list     *)
(* whatever the sink fails: every field that is not a skip gets its call,  *)
(* in list order, and the "<key>Error" call of a failed field comes right  *)
(* after that field's call, before the call of the next field.             *)
C2_ReplayRunsToEnd ==
    replayed /\ FactoryBuilt =>
        /\ ~sink.panicked
        /\ sink.scope = <<>>
        /\ CallsFor(fields, Entries(1, Len(Log), 0, IsSwitchCall))
        /\ \A i \in 1..Len(Log) :
              Log[i].depth = 0 /\ Failed(Log[i]) =>
                  i < Len(Log) /\ IsErrorFieldOf(Log[i + 1], Log[i])

\* three fields replayed, the second of which failed
C2_Witness ==
    /\ replayed
    /\ Len(fields) = 3
    /\ fields[1].fieldType = boolType
    /\ fields[2].fieldType = objectType
    /\ fields[3].fieldType = stringType
    /\ Len(Log) = 4
    /\ Failed(Log[2])
    /\ Log[1].op = "AddBool"
    /\ Log[4].op = "AddString" /\ Log[4].site = 184

---------------------------------------------------------------------------
(* C3: replaying Nest(k, f1..fn) opens sub-scope k, replays f1..fn inside  *)
(* it in their order, each once, and closes sub-scope k; the same holds of *)
(* a group inside a group, and an empty group is an open followed by a     *)
(* close.                                                                  *)
C3_NestedGroupOrder ==
    replayed /\ ~sink.panicked =>
        /\ Cardinality(Opens) =
              Cardinality({i \in 1..Len(Pre(fields)) :
                              Pre(fields)[i].fieldType = marshalerType
                              /\ Pre(fields)[i].obj.tag = "multiFields"})
        /\ \A i \in Opens :
              /\ Closed(i)
              /\ Log[CloseOf(i)].key = Log[i].key
              /\ CallsFor(Log[i].val.fs,
                          Entries(i + 1, CloseOf(i) - 1, Log[i].depth + 1, IsSwitchCall))
              /\ Log[i].val.fs = <<>> => CloseOf(i) = i + 1

\* a group replayed inside a group, followed there by another field
C3_Witness ==
    /\ replayed
    /\ \E i, j \in Opens :
          /\ Log[i].depth = 0
          /\ Log[j].depth = 1
          /\ j = i + 1
          /\ Len(Log[i].val.fs) = 2
          /\ Closed(i)
          /\ CloseOf(i) = i + 4
          /\ Log[i + 3].op = "AddString"

---------------------------------------------------------------------------
(* C4, as the spec states it: one AddTo call makes exactly one call into   *)
(* the sink, the operation of the field's kind with the field's key, and   *)
(* none for a skip.                                                        *)
C4_ExactlyOneCall ==
    replayed /\ FactoryBuilt =>
        CallsFor(fields, Entries(1, Len(Log), 0, IsCall))

(* C4, amended: one AddTo call makes exactly one call from its switch, the *)
(* operation of the field's kind with the field's key, none for a skip,    *)
(* and one more call, AddString(key + "Error", message), exactly when the  *)
(* AddMarshaler or AddObject call it made returned a failure.  This holds  *)
(* of the fields of the list and of the fields of every nested group.      *)
C4_OneCallPerKind ==
    replayed /\ ~sink.panicked =>
        /\ CallsFor(fields, Entries(1, Len(Log), 0, IsSwitchCall))
        /\ \A i \in Opens :
              CallsFor(Log[i].val.fs,
                       Entries(i + 1, CloseOf(i) - 1, Log[i].depth + 1, IsSwitchCall))
        /\ \A d \in 0..MaxFields :
              Len(Entries(1, Len(Log), d, IsCall))
                  = Len(Entries(1, Len(Log), d, IsSwitchCall))
                    + Len(Entries(1, Len(Log), d, Failed))

\* a skip, a failed object field and a bool replayed: two calls for the
\* object field, none for the skip
C4_Witness ==
    /\ replayed
    /\ Len(fields) = 3
    /\ IsSkip(fields[1])
    /\ fields[2].fieldType = objectType
    /\ fields[3].fieldType = boolType
    /\ Len(Log) = 3
    /\ Failed(Log[1])
    /\ Log[2].site = 198
    /\ Log[3].op = "AddBool"

---------------------------------------------------------------------------
(* C5: every buffer Stack took from the pool is back in the pool unless a  *)
(* Stack call still running holds it, also after a call that failed while *)
(* capturing the stack; and no buffer is held by two calls at once.        *)
C5_StackReleasesBuffer ==
    /\ \A b \in 1..pool.made :
          \/ b \in pool.free
          \/ \E t \in Threads : pc[t] \in {"got", "taken"} /\ held[t] = b
    /\ \A t, u \in Threads :
          t # u /\ held[t] # 0 => held[t] # held[u]

---------------------------------------------------------------------------
(* C6: AddTo panics on a field whose kind is none of the declared kinds,   *)
(* without a call into the sink for it or for any later field; and no      *)
(* replay of fields that all come from the factories, nested ones          *)
(* included, panics.                                                       *)
C6_UnknownKindPanics ==
    replayed =>
        /\ FactoryBuilt => ~sink.panicked
        /\ \A b \in 1..Len(Pre(fields)) :
              /\ ~Declared(Pre(fields)[b])
              /\ \A a \in 1..(b - 1) : HasCase(Pre(fields)[a])
              => /\ sink.panicked
                 /\ Len(SelectSeq(Log, IsSwitchCall))
                        = Len(NonSkip(SubSeq(Pre(fields), 1, b - 1)))

\* a group holding a field of an undeclared kind was replayed: the group
\* was opened and the replay panicked
C6_Witness ==
    /\ replayed
    /\ sink.panicked
    /\ Len(fields) = 1
    /\ Len(Pre(fields)) = 2
    /\ ~Declared(Pre(fields)[2])
    /\ Len(Log) = 1

---------------------------------------------------------------------------
(* C7: a field built by Stringer keeps the reference and no string, no     *)
(* String method has run before a replay, a replay runs String once for    *)
(* each such field, and the string AddString gets is the rendering of the  *)
(* object's state at the time of the replay.                               *)
C7_StringerDeferred ==
    /\ ~replayed => sink.invoked = 0
    /\ \A i \in 1..Len(PreMade(made)) :
          PreMade(made)[i].fn = "Stringer" =>
              Pre(fields)[i] = Field(PreMade(made)[i].key, stringerType, I64(0), <<>>,
                                     StringerObj(PreMade(made)[i].arg))
    /\ replayed /\ ~sink.panicked =>
          /\ sink.invoked =
                Cardinality({i \in 1..Len(PreMade(made)) : PreMade(made)[i].fn = "Stringer"})
          /\ \A i \in 1..Len(made) :
                made[i].fn = "Stringer" =>
                    LET e == Entries(1, Len(Log), 0, IsSwitchCall)
                                 [Len(NonSkip(SubSeq(fields, 1, i)))]
                    IN  /\ e.op = "AddString"
                        /\ e.key = made[i].key
                        /\ e.val = Render(atReplay[made[i].arg])

\* a Stringer field replayed after its object was changed
C7_Witness ==
    /\ replayed
    /\ Len(made) = 1
    /\ made[1].fn = "Stringer"
    /\ atReplay[made[1].arg] = 1
    /\ sink.invoked = 1
    /\ Len(Log) = 1
    /\ Log[1].val = Render(1)

---------------------------------------------------------------------------
(* C8: the field Float64 builds from a float64 replays as AddFloat64 of a  *)
(* float64 with the same 64 bits: the payload holds the bits as an int64,  *)
(* and reading it back as a uint64 gives the bits again.                   *)
C8_FloatBitsRoundTrip ==
    replayed /\ Len(made) = 1 /\ made[1].fn = "Float64" =>
        /\ fields[1].ival[1] \in (-TwoTo15)..(TwoTo15 - 1)
        /\ Uint64OfInt64(fields[1].ival) = Float64bits(made[1].arg)
        /\ Len(Log) = 1
        /\ Log[1].op = "AddFloat64"
        /\ Log[1].key = made[1].key
        /\ Float64bits(Log[1].val) = Float64bits(made[1].arg)

\* a NaN with the sign bit set, stored as a negative int64, replayed
C8_Witness ==
    /\ replayed
    /\ Len(made) = 1
    /\ made[1].fn = "Float64"
    /\ IsNaN(made[1].arg)
    /\ made[1].arg.sign = 1
    /\ fields[1].ival[1] < 0
    /\ Len(Log) = 1
    /\ Log[1].val = made[1].arg

---------------------------------------------------------------------------
(* C9: the field Error returns replays as no call for a nil error and as   *)
(* the one call AddString("error", message) for any other error, the       *)
(* empty message included.                                                 *)
C9_ErrorField ==
    replayed /\ Len(made) = 1 /\ made[1].fn = "Error" =>
        IF made[1].arg.isNil THEN Log = <<>>
        ELSE /\ Len(Log) = 1
             /\ Log[1].op = "AddString"
             /\ Log[1].key = S_error
             /\ Log[1].val = made[1].arg.msg

\* an error with the empty message replayed
C9_Witness ==
    /\ replayed
    /\ Len(made) = 1
    /\ made[1].fn = "Error"
    /\ ~made[1].arg.isNil
    /\ made[1].arg.msg = <<>>
    /\ Len(Log) = 1

---------------------------------------------------------------------------
(* C10: a failure inside a nested group stays inside it: the "<j>Error"    *)
(* call of a failed inner field is made inside the group's sub-scope, the  *)
(* group's MarshalLog returns no error, and the enclosing scope gets the   *)
(* group's "<k>Error" call exactly when the AddMarshaler call for k itself *)
(* returned a failure.                                                     *)
C10_GroupKeepsInnerFailure ==
    replayed /\ ~sink.panicked =>
        \A i \in Opens :
            LET j == CloseOf(i)
            IN  /\ Log[j].merr.isNil
                /\ \A m \in (i + 1)..(j - 1) :
                      Failed(Log[m]) =>
                          /\ m + 1 < j
                          /\ IsErrorFieldOf(Log[m + 1], Log[m])
                /\ (j < Len(Log) /\ IsErrorFieldOf(Log[j + 1], Log[j]))
                       <=> ~Log[j].err.isNil

\* an inner field with key j failed in a group with key k whose own
\* AddMarshaler call returned no failure
C10_Witness ==
    /\ replayed
    /\ \E i \in Opens :
          /\ Closed(i)
          /\ Log[CloseOf(i)].err.isNil
          /\ \E m \in (i + 1)..(CloseOf(i) - 1) :
                Failed(Log[m]) /\ Log[m].key # Log[i].key
          /\ \A n \in 1..Len(Log) : Log[n].depth = 0 => Log[n].site # 198

=============================================================================
